---- MODULE Spec2Model ----
(***************************************************************************)
(* Model of idbReadableStream (src/index.js): a readable stream that       *)
(* iterates an IndexedDB object store with a cursor, pauses on back        *)
(* pressure and reopens a cursor when its transaction became inactive.     *)
(*                                                                         *)
(* The adapter's code is lines 43-136.  Its collaborators are the object   *)
(* store (transaction, cursor request, IDBKeyRange) and the Transform      *)
(* stream; they are modelled by what the calls at the cited lines do.      *)
(***************************************************************************)
EXTENDS Integers, Sequences, FiniteSets

\* ---------------------------------------------------------------- bounds
\* keys of the store are 0..MaxKey (0 is a valid IndexedDB key)
MaxKey == 2
\* highWaterMark of the transform stream (objectMode: counted in objects)
HighWaterMark == 2
\* the environment lets a transaction fail or time out only while fewer than
\* MaxCursors cursors have been opened
MaxCursors == 3

\* ------------------------------------------------------------ JS values
\* undefined / null (an absent bound, lastIteratedKey before the first record)
Undefined == -1

Keys == 0..MaxKey

\* JavaScript truthiness of a key or bound: undefined, null and 0 are falsy
Truthy(v) == v # Undefined /\ v # 0

Directions == {"undefined", "next", "nextunique", "prev", "prevunique"}

\* opts.range as the caller may supply it: an IDBKeyRange (or no range at all,
\* which reads as lower = upper = undefined, both flags false)
ValidRange(r) ==
  /\ (r.lower = Undefined => r.lowerOpen = FALSE)
  /\ (r.upper = Undefined => r.upperOpen = FALSE)
  /\ (r.lower # Undefined /\ r.upper # Undefined) =>
        \/ r.lower < r.upper
        \/ r.lower = r.upper /\ ~r.lowerOpen /\ ~r.upperOpen

Ranges ==
  {r \in [lower : Keys \cup {Undefined}, upper : Keys \cup {Undefined},
          lowerOpen : BOOLEAN, upperOpen : BOOLEAN] : ValidRange(r)}

\* opts.reopenOnTimeout as supplied: absent, true or false
ReopenOpts == {"undefined", "true", "false"}

\* typeof of the first two arguments
TypeofValues == {"object", "string"}

VARIABLES
  typeofDb,         \* typeof db
  typeofStoreName,  \* typeof storeName
  opts,             \* [range, direction, reopenOnTimeout] as supplied
  store,            \* the keys in the object store
  phase,            \* "new" | "running" | "threw" (uncaught exception)
  lastIteratedKey,  \* closure variable, line 61
  cursorsOpened,    \* transformer._cursorsOpened
  keyRange,         \* key range given to the last openCursor
  cursorDirection,  \* direction given to the last openCursor
  cursorKey,        \* cursor.key of the live cursor (Undefined: not yet placed)
  txState,          \* "none" | "active" | "erroring" | "finished" | "aborted"
  reqState,         \* "none" | "pending": a cursor request awaits its success event
  drainWait,        \* a once('drain') listener is registered
  buffered,         \* objects buffered in the transform stream
  written,          \* keys written to the stream, in order
  advanceRequests,  \* number of cursor.continue() calls
  errors,           \* number of 'error' events emitted on the stream
  ended,            \* number of transformer.end() calls
  requestsIssued,   \* cursor requests made pending (openCursor, continue)
  requestsDone,     \* cursor requests that succeeded, failed or were cancelled
  drainListeners,   \* number of 'drain' listeners registered on the stream
  inactiveConditions, \* number of TransactionInactiveErrors continue() threw
  last              \* the last step taken and what proceed() did in it

vars == <<typeofDb, typeofStoreName, opts, store, phase, lastIteratedKey,
          cursorsOpened, keyRange, cursorDirection, cursorKey, txState,
          reqState, drainWait, buffered, written, advanceRequests,
          errors, ended, requestsIssued, requestsDone, drainListeners,
          inactiveConditions, last>>

config == <<typeofDb, typeofStoreName, opts, store>>
cursorVars == <<keyRange, cursorDirection, cursorKey, txState, reqState, cursorsOpened>>

\* ------------------------------------------------------------ IDBKeyRange
NoKeyRange ==
  [lower |-> Undefined, upper |-> Undefined, lowerOpen |-> FALSE, upperOpen |-> FALSE]

\* IDBKeyRange.bound throws a DataError when lower > upper, or when they are
\* equal and a bound is open
BoundThrows(lower, upper, lowerOpen, upperOpen) ==
  \/ lower > upper
  \/ lower = upper /\ (lowerOpen \/ upperOpen)

IDBKeyRangeBound(lower, upper, lowerOpen, upperOpen) ==
  [lower |-> lower, upper |-> upper, lowerOpen |-> lowerOpen, upperOpen |-> upperOpen]

IDBKeyRangeLowerBound(lower, lowerOpen) ==
  [lower |-> lower, upper |-> Undefined, lowerOpen |-> lowerOpen, upperOpen |-> TRUE]

IDBKeyRangeUpperBound(upper, upperOpen) ==
  [lower |-> Undefined, upper |-> upper, lowerOpen |-> TRUE, upperOpen |-> upperOpen]

\* whether key k lies in key range kr (an undefined bound does not restrict)
InKeyRange(k, kr) ==
  /\ kr.lower # Undefined => IF kr.lowerOpen THEN k > kr.lower ELSE k >= kr.lower
  /\ kr.upper # Undefined => IF kr.upperOpen THEN k < kr.upper ELSE k <= kr.upper

\* ----------------------------------------------------------- the cursor
\* the direction the store iterates in: openCursor defaults to "next"
Forward(dir) == dir \in {"undefined", "next", "nextunique"}

SetMin(S) == CHOOSE x \in S : \A y \in S : x <= y
SetMax(S) == CHOOSE x \in S : \A y \in S : x >= y

\* the keys a cursor over kr in direction dir, now at key pos, has still to visit
Remaining(st, kr, dir, pos) ==
  {k \in st : /\ InKeyRange(k, kr)
              /\ pos # Undefined => IF Forward(dir) THEN k > pos ELSE k < pos}

\* req.result of the next success event: the key the cursor moves to, or
\* Undefined (a null cursor) when the range is exhausted
CursorResult(st, kr, dir, pos) ==
  LET rem == Remaining(st, kr, dir, pos)
  IN IF rem = {} THEN Undefined
     ELSE IF Forward(dir) THEN SetMin(rem) ELSE SetMax(rem)

\* ------------------------------------------------------------ the adapter
\* mutant of ReopenOnTimeout: the option is ignored and a timed-out cursor is
\* always reopened
ReopenOnTimeoutIgnored(o) == TRUE

\* opts = xtend({ reopenOnTimeout: true }, opts)
ReopenOnTimeout(o) ==
  IF o.reopenOnTimeout = "undefined" THEN TRUE ELSE o.reopenOnTimeout = "true"

\* startCursor, lines 65-84: the bounds for this opening, from the configured
\* range and from lastIteratedKey (lik) when it is truthy
EffectiveBounds(o, lik) ==
  LET direction == IF o.direction = "undefined" THEN "next" ELSE o.direction
      range == o.range
  IN IF Truthy(lik)
     THEN IF direction = "next"
          THEN [lower |-> lik, upper |-> range.upper,
                lowerOpen |-> TRUE, upperOpen |-> range.upperOpen]
          ELSE [lower |-> range.lower, upper |-> lik,
                lowerOpen |-> range.lowerOpen, upperOpen |-> TRUE]
     ELSE [lower |-> range.lower, upper |-> range.upper,
           lowerOpen |-> range.lowerOpen, upperOpen |-> range.upperOpen]

\* startCursor, lines 86-92: the IDBKeyRange built from the bounds; throws is
\* TRUE when the IDBKeyRange constructor raises
MakeKeyRange(b) ==
  IF Truthy(b.lower) /\ Truthy(b.upper)
  THEN [throws |-> BoundThrows(b.lower, b.upper, b.lowerOpen, b.upperOpen),
        keyRange |-> IDBKeyRangeBound(b.lower, b.upper, b.lowerOpen, b.upperOpen)]
  ELSE IF Truthy(b.lower)
  THEN [throws |-> FALSE, keyRange |-> IDBKeyRangeLowerBound(b.lower, b.lowerOpen)]
  ELSE IF Truthy(b.upper)
  THEN [throws |-> FALSE, keyRange |-> IDBKeyRangeUpperBound(b.upper, b.upperOpen)]
  ELSE [throws |-> FALSE, keyRange |-> NoKeyRange]

\* mutant of CursorsOpenedAfterOpen: the counter is not incremented
CursorsOpenedNotCounted == cursorsOpened

\* line 97: transformer._cursorsOpened++
CursorsOpenedAfterOpen == cursorsOpened + 1

\* startCursor: reads lastIteratedKey as it is when called (its primed value
\* in the step), opens a transaction and a cursor request on it.  When the key
\* range cannot be built the exception leaves startCursor before line 94.
StartCursor ==
  LET made == MakeKeyRange(EffectiveBounds(opts, lastIteratedKey'))
  IN IF made.throws
     THEN /\ phase' = "threw"
          /\ reqState' = "none"
          /\ UNCHANGED <<keyRange, cursorDirection, cursorKey, txState, cursorsOpened,
                         requestsIssued>>
     ELSE /\ phase' = "running"
          /\ keyRange' = made.keyRange
          /\ cursorDirection' = opts.direction
          /\ cursorKey' = Undefined
          /\ txState' = "active"
          /\ cursorsOpened' = CursorsOpenedAfterOpen
          /\ reqState' = "pending"
          /\ requestsIssued' = requestsIssued + 1

\* cursor.continue() throws a TransactionInactiveError when the cursor's
\* transaction is no longer active
ContinueThrows == txState # "active"

\* the exceptions cursor.continue() can raise ("none": it returns)
ContinueErrors == {"none", "TransactionInactiveError", "InvalidStateError"}

\* what cursor.continue() can do now: on an inactive transaction it throws
\* TransactionInactiveError; on an active one it returns, or fails for another
\* reason (the cursor's source is gone)
ContinueMayRaise(err) ==
  IF ContinueThrows
  THEN err = "TransactionInactiveError"
  ELSE err \in {"none", "InvalidStateError"}

\* mutant of ShouldReopen: the name of the error is not looked at
ShouldReopenAnyError(err, o) == ReopenOnTimeout(o)

\* line 105: err.name === 'TransactionInactiveError' && opts.reopenOnTimeout
ShouldReopen(err, o) == err = "TransactionInactiveError" /\ ReopenOnTimeout(o)

\* what proceed does when continue() raises err: "continue", "reopen", "error"
ProceedDoes(err) ==
  IF err = "none" THEN "continue"
  ELSE IF ShouldReopen(err, opts) THEN "reopen" ELSE "error"

\* proceed(cursor), lines 100-110, with err what cursor.continue() raises
Proceed(cursor, err) ==
  /\ ContinueMayRaise(err)
  /\ advanceRequests' = advanceRequests + 1
  /\ inactiveConditions' =
       IF err = "TransactionInactiveError"
       THEN inactiveConditions + 1 ELSE inactiveConditions
  /\ IF err = "none"
     THEN /\ reqState' = "pending"
          /\ requestsIssued' = requestsIssued + 1
          /\ cursorKey' = cursor
          /\ UNCHANGED <<phase, keyRange, cursorDirection, txState, cursorsOpened, errors>>
     ELSE IF ShouldReopen(err, opts)
     THEN /\ StartCursor
          /\ UNCHANGED errors
     ELSE /\ errors' = errors + 1
          /\ reqState' = "none"
          /\ cursorKey' = cursor
          /\ UNCHANGED <<phase, keyRange, cursorDirection, txState, cursorsOpened,
                         requestsIssued>>

\* mutant of WriteReturns: the result of write() is taken to be true always
WriteReturnsIgnored == TRUE

\* transformer.write(obj): buffers the object; false when the buffer has
\* reached the high water mark
WriteReturns == buffered + 1 < HighWaterMark

\* mutant of ArgumentsInvalid: only db is validated
ArgumentsInvalidDbOnly == typeofDb # "object"

\* lines 44-45: the argument checks that throw a TypeError
ArgumentsInvalid == typeofDb # "object" \/ typeofStoreName # "string"

\* idbReadableStream(db, storeName, opts), lines 43-62 and 133
Construct ==
  /\ phase = "new"
  /\ last' = [op |-> "Construct", proceed |-> "none", err |-> "none"]
  /\ IF ArgumentsInvalid
     THEN /\ phase' = "threw"
          /\ UNCHANGED <<lastIteratedKey, cursorVars, requestsIssued>>
     ELSE /\ lastIteratedKey' = Undefined
          /\ StartCursor
  /\ UNCHANGED <<config, drainWait, buffered, written, advanceRequests, errors, ended,
                 requestsDone, drainListeners, inactiveConditions>>

\* mutant of WaitForDrain: the else is missing, so continue() is called as
\* well as the drain listener registered
WaitForDrainAndContinue(cursor) ==
  /\ drainWait' = TRUE
  /\ drainListeners' = drainListeners + 1
  /\ reqState' = "pending"
  /\ requestsIssued' = requestsIssued + 1
  /\ advanceRequests' = advanceRequests + 1
  /\ cursorKey' = cursor
  /\ last' = [op |-> "OnSuccess", proceed |-> "continue", err |-> "none"]
  /\ UNCHANGED <<phase, keyRange, cursorDirection, txState, cursorsOpened,
                 errors, inactiveConditions>>

\* line 120: transformer.once('drain', () => proceed(cursor))
WaitForDrain(cursor) ==
  /\ drainWait' = TRUE
  /\ drainListeners' = drainListeners + 1
  /\ reqState' = "none"
  /\ cursorKey' = cursor
  /\ last' = [op |-> "OnSuccess", proceed |-> "none", err |-> "none"]
  /\ UNCHANGED <<phase, keyRange, cursorDirection, txState, cursorsOpened,
                 advanceRequests, errors, requestsIssued, inactiveConditions>>

\* mutant of OnRecord: lastIteratedKey is assigned only when the write was
\* accepted
OnRecordLateUpdate(cursor) ==
  /\ lastIteratedKey' = IF WriteReturns THEN cursor ELSE lastIteratedKey
  /\ written' = Append(written, cursor)
  /\ buffered' = buffered + 1
  /\ IF WriteReturns
     THEN /\ \E err \in ContinueErrors :
               /\ Proceed(cursor, err)
               /\ last' = [op |-> "OnSuccess", proceed |-> ProceedDoes(err), err |-> err]
          /\ UNCHANGED <<drainWait, drainListeners>>
     ELSE WaitForDrain(cursor)
  /\ UNCHANGED ended

\* lines 115-120: the cursor is on a record
OnRecord(cursor) ==
  /\ lastIteratedKey' = cursor
  /\ written' = Append(written, cursor)
  /\ buffered' = buffered + 1
  /\ IF WriteReturns
     THEN /\ \E err \in ContinueErrors :
               /\ Proceed(cursor, err)
               /\ last' = [op |-> "OnSuccess", proceed |-> ProceedDoes(err), err |-> err]
          /\ UNCHANGED <<drainWait, drainListeners>>
     ELSE WaitForDrain(cursor)
  /\ UNCHANGED ended

\* mutant of OnExhausted: the null cursor is not recognised, so the handler
\* calls continue on it instead of ending the stream
OnExhaustedProceeds ==
  /\ advanceRequests' = advanceRequests + 1
  /\ reqState' = "pending"
  /\ requestsIssued' = requestsIssued + 1
  /\ last' = [op |-> "OnSuccess", proceed |-> "continue", err |-> "none"]
  /\ UNCHANGED <<phase, lastIteratedKey, keyRange, cursorDirection, cursorKey,
                 txState, cursorsOpened, drainWait, buffered, written,
                 errors, ended, drainListeners, inactiveConditions>>

\* lines 121-122: the cursor is null, transformer.end()
OnExhausted ==
  /\ ended' = ended + 1
  /\ reqState' = "none"
  /\ last' = [op |-> "OnSuccess", proceed |-> "none", err |-> "none"]
  /\ UNCHANGED <<phase, lastIteratedKey, keyRange, cursorDirection, cursorKey,
                 txState, cursorsOpened, drainWait, buffered, written,
                 advanceRequests, errors, requestsIssued, drainListeners,
                 inactiveConditions>>

\* req.onsuccess, lines 112-123
OnSuccess ==
  /\ phase = "running"
  /\ reqState = "pending"
  /\ txState = "active"
  /\ LET cursor == CursorResult(store, keyRange, cursorDirection, cursorKey)
     IN IF cursor # Undefined THEN OnRecord(cursor) ELSE OnExhausted
  /\ requestsDone' = requestsDone + 1
  /\ UNCHANGED config

\* the 'drain' listener of line 120: () => proceed(cursor)
Drain ==
  /\ phase = "running"
  /\ drainWait
  /\ buffered = 0
  /\ txState # "erroring"
  /\ drainWait' = FALSE
  /\ drainListeners' = drainListeners - 1
  /\ lastIteratedKey' = lastIteratedKey
  /\ \E err \in ContinueErrors :
       /\ Proceed(cursorKey, err)
       /\ last' = [op |-> "Drain", proceed |-> ProceedDoes(err), err |-> err]
  /\ UNCHANGED <<config, buffered, written, ended, requestsDone>>

\* the consumer reads one object from the stream
Consume ==
  /\ buffered > 0
  /\ txState # "erroring"
  /\ buffered' = buffered - 1
  /\ last' = [op |-> "Consume", proceed |-> "none", err |-> "none"]
  /\ UNCHANGED <<config, phase, lastIteratedKey, cursorVars, drainWait, written,
                 advanceRequests, errors, ended, requestsIssued, requestsDone,
                 drainListeners, inactiveConditions>>

\* the transaction has no request left and completes (the cursor "times out")
TxFinish ==
  /\ phase = "running"
  /\ txState = "active"
  /\ reqState = "none"
  /\ cursorsOpened < MaxCursors
  /\ txState' = "finished"
  /\ last' = [op |-> "TxFinish", proceed |-> "none", err |-> "none"]
  /\ UNCHANGED <<config, phase, lastIteratedKey, cursorsOpened, keyRange,
                 cursorDirection, cursorKey, reqState, drainWait, buffered, written,
                 advanceRequests, errors, ended, requestsIssued, requestsDone,
                 drainListeners, inactiveConditions>>

\* tx.onerror, lines 128-130: an error event reaches the transaction, which
\* then aborts
TxError ==
  /\ phase = "running"
  /\ txState = "active"
  /\ cursorsOpened < MaxCursors
  /\ errors' = errors + 1
  /\ txState' = "erroring"
  /\ reqState' = "none"
  /\ last' = [op |-> "TxError", proceed |-> "none", err |-> "none"]
  /\ requestsDone' = requestsIssued
  /\ UNCHANGED <<config, phase, lastIteratedKey, cursorsOpened, keyRange,
                 cursorDirection, cursorKey, drainWait, buffered, written,
                 advanceRequests, ended, requestsIssued, drainListeners,
                 inactiveConditions>>

\* mutant of TxAbort: the abort handler retries with a new cursor
TxAbortRetries ==
  /\ phase = "running"
  /\ \/ txState = "erroring"
     \/ txState = "active" /\ cursorsOpened < MaxCursors
  /\ errors' = errors + 1
  /\ requestsDone' = requestsIssued
  /\ lastIteratedKey' = lastIteratedKey
  /\ StartCursor
  /\ last' = [op |-> "TxAbort", proceed |-> "reopen", err |-> "none"]
  /\ UNCHANGED <<config, drainWait, buffered, written, advanceRequests, ended,
                 drainListeners, inactiveConditions>>

\* tx.onabort, lines 125-127: the transaction aborts; its pending request
\* never succeeds
TxAbort ==
  /\ phase = "running"
  /\ \/ txState = "erroring"
     \/ txState = "active" /\ cursorsOpened < MaxCursors
  /\ errors' = errors + 1
  /\ txState' = "aborted"
  /\ reqState' = "none"
  /\ last' = [op |-> "TxAbort", proceed |-> "none", err |-> "none"]
  /\ requestsDone' = requestsIssued
  /\ UNCHANGED <<config, phase, lastIteratedKey, cursorsOpened, keyRange,
                 cursorDirection, cursorKey, drainWait, buffered, written,
                 advanceRequests, ended, requestsIssued, drainListeners,
                 inactiveConditions>>

Init ==
  /\ typeofDb \in TypeofValues
  /\ typeofStoreName \in TypeofValues
  /\ opts \in [range : Ranges, direction : Directions, reopenOnTimeout : ReopenOpts]
  /\ store \in SUBSET Keys
  /\ phase = "new"
  /\ lastIteratedKey = Undefined
  /\ cursorsOpened = 0
  /\ keyRange = NoKeyRange
  /\ cursorDirection = "undefined"
  /\ cursorKey = Undefined
  /\ txState = "none"
  /\ reqState = "none"
  /\ drainWait = FALSE
  /\ buffered = 0
  /\ written = <<>>
  /\ advanceRequests = 0
  /\ errors = 0
  /\ ended = 0
  /\ requestsIssued = 0
  /\ requestsDone = 0
  /\ drainListeners = 0
  /\ inactiveConditions = 0
  /\ last = [op |-> "Init", proceed |-> "none", err |-> "none"]

Next ==
  \/ Construct
  \/ OnSuccess
  \/ Drain
  \/ Consume
  \/ TxFinish
  \/ TxError
  \/ TxAbort

Spec == Init /\ [][Next]_vars

\* another transaction adds or deletes a record.  A cursor reads the snapshot
\* of its own transaction, so a change shows only in a cursor opened later:
\* the step is taken between a finished transaction and the reopen.
StoreChange ==
  /\ phase = "running"
  /\ txState \in {"finished", "aborted"}
  /\ drainWait
  /\ \E k \in Keys : store' = IF k \in store THEN store \ {k} ELSE store \cup {k}
  /\ last' = [op |-> "StoreChange", proceed |-> "none", err |-> "none"]
  /\ UNCHANGED <<typeofDb, typeofStoreName, opts, phase, lastIteratedKey,
                 cursorVars, drainWait, buffered, written, advanceRequests, errors,
                 ended, requestsIssued, requestsDone, drainListeners,
                 inactiveConditions>>

NextSnap == Next \/ StoreChange

\* the store changes between cursor generations
SpecSnap == Init /\ [][NextSnap]_vars

\* ================================================================ claims
\* the keys of st inside the configured range r, by the range's own bounds
KeysInRange(st, r) == {k \in st : InKeyRange(k, r)}

RECURSIVE Ascending(_)
Ascending(S) == IF S = {} THEN <<>> ELSE <<SetMin(S)>> \o Ascending(S \ {SetMin(S)})

RECURSIVE Descending(_)
Descending(S) == IF S = {} THEN <<>> ELSE <<SetMax(S)>> \o Descending(S \ {SetMax(S)})

\* the keys of the configured range in the configured direction, each once
ExpectedKeys ==
  IF Forward(opts.direction)
  THEN Ascending(KeysInRange(store, opts.range))
  ELSE Descending(KeysInRange(store, opts.range))

\* a cursor was re-opened in the last step (proceed called startCursor and a
\* cursor was opened)
Reopened == last.proceed = "reopen" /\ phase = "running"

\* C1: with reopenOnTimeout enabled and no transaction failure other than
\* timeouts, once the stream has ended the keys written downstream are exactly
\* the keys of the configured range in the configured direction, each once.
C1_NoLossNoDuplication ==
  (ended > 0 /\ errors = 0 /\ ReopenOnTimeout(opts)) => written = ExpectedKeys

\* C2: in a forward direction ("next", "nextunique" or none given), a cursor
\* re-opened after key K was emitted is opened with lower bound K, open.
C2_ForwardReopenLowerBound ==
  (Reopened /\ Forward(opts.direction)) =>
     (keyRange.lower = lastIteratedKey /\ keyRange.lowerOpen)

\* C3: in a backward direction ("prev", "prevunique"), a cursor re-opened
\* after key K was emitted is opened with upper bound K, open.
C3_BackwardReopenUpperBound ==
  (Reopened /\ ~Forward(opts.direction)) =>
     (keyRange.upper = lastIteratedKey /\ keyRange.upperOpen)

\* a step in which cursor.continue() is called on an inactive transaction
TimeoutAtAdvance ==
  advanceRequests' = advanceRequests + 1 /\ txState # "active"

\* a step in which a record is written and write() reports the buffer full
PushAtCapacity ==
  Len(written') = Len(written) + 1 /\ buffered + 1 >= HighWaterMark

\* C4: when a push reports the buffer at capacity the adapter waits for the
\* drain; while it waits it requests no advance and opens no cursor; the step
\* that delivers the drain makes exactly one advance request.
C4_Backpressure ==
  [][ /\ PushAtCapacity =>
           (drainWait' /\ advanceRequests' = advanceRequests
                       /\ cursorsOpened' = cursorsOpened /\ reqState' = "none")
      /\ (drainWait /\ drainWait') =>
           (advanceRequests' = advanceRequests /\ cursorsOpened' = cursorsOpened
              /\ reqState' = "none")
      /\ (drainWait /\ ~drainWait') =>
           advanceRequests' = advanceRequests + 1 ]_vars

\* C4 witness: the consumer has drained after a wait and the adapter has
\* requested the advance
C4_Witness ==
  last.op = "Drain" /\ last.proceed = "continue" /\ reqState = "pending"

\* C5: with reopenOnTimeout true or absent, an advance that meets an inactive
\* transaction emits no error and opens exactly one replacement cursor, whose
\* range resumes behind the current Cursor Position.
C5_TimeoutAbsorbed ==
  [][ (TimeoutAtAdvance /\ ReopenOnTimeout(opts)) =>
         /\ errors' = errors
         /\ cursorsOpened' = cursorsOpened + 1
         /\ ~InKeyRange(lastIteratedKey', keyRange') ]_vars

\* C6: with reopenOnTimeout false, an advance that meets an inactive
\* transaction emits exactly one error and leaves nothing pending; from such a
\* state (no request pending, no drain awaited) no record is written, no
\* advance requested and no cursor opened.
C6_TimeoutFatal ==
  [][ opts.reopenOnTimeout = "false" =>
        /\ TimeoutAtAdvance =>
             (errors' = errors + 1 /\ cursorsOpened' = cursorsOpened
                /\ reqState' = "none" /\ ~drainWait' /\ written' = written)
        /\ (phase = "running" /\ reqState = "none" /\ ~drainWait) =>
             (written' = written /\ advanceRequests' = advanceRequests
                /\ cursorsOpened' = cursorsOpened /\ reqState' = "none"
                /\ ~drainWait') ]_vars

\* C6 witness: the timeout has been surfaced as the one error
C6_Witness ==
  /\ opts.reopenOnTimeout = "false"
  /\ last.proceed = "error"
  /\ errors = 1
  /\ txState = "finished"

\* C7: a transaction abort or error is emitted as an error and never retried:
\* once the transaction has failed no cursor is opened.
C7_AbortNeverRetried ==
  [][ /\ (txState = "active" /\ txState' \in {"erroring", "aborted"}) =>
           errors' = errors + 1
      /\ txState \in {"erroring", "aborted"} =>
           cursorsOpened' = cursorsOpened ]_vars

\* C8: ended and errored are terminal: after end() or an error no cursor is
\* opened and no record is written.
C8_TerminalStates ==
  [][ (ended > 0 \/ errors > 0) =>
         (cursorsOpened' = cursorsOpened /\ written' = written) ]_vars

\* C9: at most one error is emitted in the adapter's lifetime, and none after
\* end().
C9_AtMostOneError ==
  [][ errors' <= 1 /\ (ended > 0 => errors' = errors) ]_vars

\* a step in which the success event delivers a null cursor
ExhaustedCompletion ==
  /\ phase = "running" /\ reqState = "pending" /\ txState = "active"
  /\ CursorResult(store, keyRange, cursorDirection, cursorKey) = Undefined
  /\ last'.op = "OnSuccess"

\* C10: a success event with a null cursor ends the stream, emits no error
\* and requests no advance; end() is called once, and after it no advance is
\* requested.
C10_ExhaustedEnds ==
  [][ /\ ExhaustedCompletion =>
           (ended' = 1 /\ ended = 0 /\ errors' = errors
              /\ advanceRequests' = advanceRequests /\ reqState' = "none"
              /\ cursorsOpened' = cursorsOpened /\ written' = written)
      /\ ended > 0 =>
           (ended' = ended /\ advanceRequests' = advanceRequests
              /\ reqState' = "none") ]_vars

\* C10 witness: the stream has ended after writing every key of a store of
\* more than one key
C10_Witness ==
  /\ ended = 1
  /\ errors = 0
  /\ Len(written) >= 2
  /\ written = ExpectedKeys

\* C11: constructing with a db that is not an object or a storeName that is
\* not a string throws at once: no transaction or cursor is opened (the cursor
\* counter stays 0) and no handler is registered.
C11_InvalidConstruction ==
  (phase # "new" /\ (typeofDb # "object" \/ typeofStoreName # "string")) =>
     /\ phase = "threw"
     /\ cursorsOpened = 0
     /\ txState = "none"
     /\ reqState = "none"
     /\ ~drainWait
     /\ written = <<>>

\* C11 witness: the constructor has thrown on a storeName that is no string
C11_Witness ==
  /\ last.op = "Construct"
  /\ phase = "threw"
  /\ typeofDb = "object"
  /\ typeofStoreName # "string"
  /\ cursorsOpened = 0

\* the transaction-inactive conditions that a reopen has absorbed: all of
\* them with reopenOnTimeout enabled, but for the one whose reopen threw
AbsorbedTimeouts ==
  IF opts.reopenOnTimeout = "false" THEN 0
  ELSE IF phase = "threw" THEN inactiveConditions - 1
  ELSE inactiveConditions

C13_EndsOrErrors ==
  (phase # "new" /\ typeofDb = "object" /\ typeofStoreName = "string") =>
     (ended > 0 \/ errors > 0 \/ ENABLED Next)

\* cursor requests whose success event is still to come
InFlight == requestsIssued - requestsDone

\* C14: at most one cursor request is in flight, at most one drain listener
\* is registered, and never both: at most one cursor handle is live.
C14_OneLiveCursor ==
  /\ InFlight \in {0, 1}
  /\ drainListeners \in {0, 1}
  /\ InFlight + drainListeners <= 1
  /\ (reqState = "pending") = (InFlight = 1)
  /\ drainWait = (drainListeners = 1)

\* C14 witness: the second cursor waits for a drain, no request in flight
C14_Witness ==
  /\ cursorsOpened = 2
  /\ drainListeners = 1
  /\ InFlight = 0
  /\ txState = "active"

\* C15: the first cursor is opened with the range as configured.
C15_FirstOpeningUsesRange ==
  (last.op = "Construct" /\ phase = "running") =>
     /\ keyRange.lower = opts.range.lower
     /\ keyRange.upper = opts.range.upper
     /\ opts.range.lower # Undefined => keyRange.lowerOpen = opts.range.lowerOpen
     /\ opts.range.upper # Undefined => keyRange.upperOpen = opts.range.upperOpen

\* the key of the most recently written record, Undefined before the first
LastWritten == IF written = <<>> THEN Undefined ELSE written[Len(written)]

\* C16: lastIteratedKey is the key of the most recently written record; it
\* is assigned only by the success handler, once for each record written.
C16_CursorPosition ==
  /\ [](lastIteratedKey = LastWritten)
  /\ [][ (lastIteratedKey' # lastIteratedKey \/ written' # written) =>
            /\ last'.op = "OnSuccess"
            /\ Len(written') = Len(written) + 1
            /\ lastIteratedKey' = written'[Len(written')] ]_vars

\* C16 witness: a cursor was reopened and the position is still the key of
\* the last record
C16_Witness ==
  /\ Reopened
  /\ Len(written) >= 2
  /\ lastIteratedKey = written[Len(written)]

\* C17: the keys written are strictly monotonic in the iteration direction,
\* across all cursor generations, also when the store changes between them.
C17_StrictlyMonotonic ==
  \A i, j \in 1..Len(written) :
     i < j => IF Forward(opts.direction)
              THEN written[i] < written[j]
              ELSE written[i] > written[j]

\* C18: the number of cursors opened is at most the number of records
\* written plus one.
C18_ReopenAfterProgress == cursorsOpened <= Len(written) + 1

\* C18 witness: a second cursor was opened after two records
C18_Witness ==
  /\ Reopened
  /\ cursorsOpened = 2
  /\ Len(written) = 2

\* C19: an advance that fails with another error than TransactionInactiveError
\* emits the error and opens no cursor, also with reopenOnTimeout enabled.
C19_OtherErrorFatal ==
  [][ (last'.err = "InvalidStateError" /\ advanceRequests' = advanceRequests + 1) =>
         /\ errors' = errors + 1
         /\ cursorsOpened' = cursorsOpened
         /\ reqState' = "none"
         /\ phase' = phase ]_vars

\* C19 witness: with reopenOnTimeout enabled, continue() failed for another
\* reason after a drain and the one error was emitted
C19_Witness ==
  /\ opts.reopenOnTimeout # "false"
  /\ last.op = "Drain"
  /\ last.err = "InvalidStateError"
  /\ errors = 1
  /\ cursorsOpened = 1

\* C20: a reopen leaves the bound of the other side as configured (the upper
\* bound when iterating forward, the lower bound when iterating backward) and
\* passes the same direction as the first opening.
C20_ReopenFrame ==
  Reopened =>
     /\ cursorDirection = opts.direction
     /\ IF Forward(opts.direction)
        THEN /\ keyRange.upper = opts.range.upper
             /\ opts.range.upper # Undefined =>
                  keyRange.upperOpen = opts.range.upperOpen
        ELSE /\ keyRange.lower = opts.range.lower
             /\ opts.range.lower # Undefined =>
                  keyRange.lowerOpen = opts.range.lowerOpen

====
